---- MODULE Spec2Model ----
(***************************************************************************)
(* reformat_java.py: a regex-driven pretty-printer for Java sources that   *)
(* were collapsed onto very few lines, and the batch loop that drives it.  *)
(*                                                                         *)
(* A text is a sequence of code points.  The regular expressions          *)
(* of the source are computed character by character, as Python's re.sub   *)
(* computes them (leftmost, non-overlapping, greedy with backtracking).    *)
(***************************************************************************)
EXTENDS Integers, Sequences, FiniteSets, TLC

VARIABLES
    file,             \* the text stored at filepath
    content,          \* local `content` of reformat_java_file
    lines,            \* the part of `lines` the for loop has not visited yet
    formatted_lines,  \* local `formatted_lines`
    indent_level,     \* local `indent_level`
    changed,          \* value reformat_java_file returned: "True", "False" ("none" before)
    pc,               \* position inside reformat_java_file
    original,         \* the text the file held before the first call
                      \* (batch: the texts of fs before the first run)
    rerun,            \* TRUE while reformat_java_file runs a second time on its own output
                      \* (batch: while the script runs a second time on the same tree)
    out1,             \* the text the file held when the first call returned
                      \* (batch: the texts of fs when the first run had printed its total)
    fs,               \* batch: the .java files under src/main/java, in os.walk order
    idx,              \* batch: index of the file the loop is at
    reformatted,      \* batch: module-level list `reformatted` (indices of files)
    bpc,              \* batch: position of the module-level loop
    reported,         \* batch: the total printed by the last line (-1 before)
    failedAt          \* batch: where the loop was when a call raised, and the call (at 0: none)

vars == <<file, content, lines, formatted_lines, indent_level, changed, pc,
          original, rerun, out1, fs, idx, reformatted, bpc, reported, failedAt>>

fileVars == <<file, content, lines, formatted_lines, indent_level, changed, pc,
              original, rerun, out1>>

batchVars == <<fs, idx, reformatted, bpc, reported, failedAt>>

-----------------------------------------------------------------------------
(* Characters *)

\* A character is its Unicode code point; a text is a sequence of characters.

\* the printable ASCII characters in code order, from the space (32) to the
\* tilde (126); the double quote, the backslash and the backtick are written
\* by name
Printable ==
    <<
      " ","!","quote","#","$","%","&","'","(",")","*","+",",","-",".","/",
      "0","1","2","3","4","5","6","7","8","9",":",";","<","=",">","?",
      "@","A","B","C","D","E","F","G","H","I","J","K","L","M","N","O",
      "P","Q","R","S","T","U","V","W","X","Y","Z","[","backslash","]","^","_",
      "backtick","a","b","c","d","e","f","g","h","i","j","k","l","m","n","o",
      "p","q","r","s","t","u","v","w","x","y","z","{","|","}","~" >>

\* the code point of an ASCII character written as a string
Code ==
    [c \in {Printable[i] : i \in 1..Len(Printable)} \cup {"\t", "\n", "\f", "\r"} |->
        IF c = "\t" THEN 9
        ELSE IF c = "\n" THEN 10
        ELSE IF c = "\f" THEN 12
        ELSE IF c = "\r" THEN 13
        ELSE 31 + (CHOOSE i \in 1..Len(Printable) : Printable[i] = c)]

\* the text whose characters are the ASCII characters of s, written as strings
Text(s) == [i \in 1..Len(s) |-> Code[s[i]]]

NL == Code["\n"]

SP == Code[" "]

CR == Code["\r"]

OpenBrace == Code["{"]

CloseBrace == Code["}"]

Semicolon == Code[";"]

\* what str.strip() removes and the regex class \s of a str pattern matches
\* (str.isspace): tab, line feed, vertical tab, form feed, carriage return,
\* U+001C..U+001F, space, U+0085, U+00A0, U+1680, U+2000..U+200A, U+2028,
\* U+2029, U+202F, U+205F and U+3000
Whitespace ==
    {9, 10, 11, 12, 13, 28, 29, 30, 31, 32, 133, 160, 5760} \cup (8192..8202)
        \cup {8232, 8233, 8239, 8287, 12288}

\* the code points the regex class \w of a str pattern matches (str.isalnum
\* or '_'), as inclusive ranges in ascending order (Unicode 14.0.0, the
\* database of the interpreter)
WordRanges == <<
    <<48, 57>>, <<65, 90>>, <<95, 95>>, <<97, 122>>, <<170, 170>>, <<178, 179>>,
    <<181, 181>>, <<185, 186>>, <<188, 190>>, <<192, 214>>, <<216, 246>>, <<248, 705>>,
    <<710, 721>>, <<736, 740>>, <<748, 748>>, <<750, 750>>, <<880, 884>>, <<886, 887>>,
    <<890, 893>>, <<895, 895>>, <<902, 902>>, <<904, 906>>, <<908, 908>>, <<910, 929>>,
    <<931, 1013>>, <<1015, 1153>>, <<1162, 1327>>, <<1329, 1366>>, <<1369, 1369>>, <<1376, 1416>>,
    <<1488, 1514>>, <<1519, 1522>>, <<1568, 1610>>, <<1632, 1641>>, <<1646, 1647>>, <<1649, 1747>>,
    <<1749, 1749>>, <<1765, 1766>>, <<1774, 1788>>, <<1791, 1791>>, <<1808, 1808>>, <<1810, 1839>>,
    <<1869, 1957>>, <<1969, 1969>>, <<1984, 2026>>, <<2036, 2037>>, <<2042, 2042>>, <<2048, 2069>>,
    <<2074, 2074>>, <<2084, 2084>>, <<2088, 2088>>, <<2112, 2136>>, <<2144, 2154>>, <<2160, 2183>>,
    <<2185, 2190>>, <<2208, 2249>>, <<2308, 2361>>, <<2365, 2365>>, <<2384, 2384>>, <<2392, 2401>>,
    <<2406, 2415>>, <<2417, 2432>>, <<2437, 2444>>, <<2447, 2448>>, <<2451, 2472>>, <<2474, 2480>>,
    <<2482, 2482>>, <<2486, 2489>>, <<2493, 2493>>, <<2510, 2510>>, <<2524, 2525>>, <<2527, 2529>>,
    <<2534, 2545>>, <<2548, 2553>>, <<2556, 2556>>, <<2565, 2570>>, <<2575, 2576>>, <<2579, 2600>>,
    <<2602, 2608>>, <<2610, 2611>>, <<2613, 2614>>, <<2616, 2617>>, <<2649, 2652>>, <<2654, 2654>>,
    <<2662, 2671>>, <<2674, 2676>>, <<2693, 2701>>, <<2703, 2705>>, <<2707, 2728>>, <<2730, 2736>>,
    <<2738, 2739>>, <<2741, 2745>>, <<2749, 2749>>, <<2768, 2768>>, <<2784, 2785>>, <<2790, 2799>>,
    <<2809, 2809>>, <<2821, 2828>>, <<2831, 2832>>, <<2835, 2856>>, <<2858, 2864>>, <<2866, 2867>>,
    <<2869, 2873>>, <<2877, 2877>>, <<2908, 2909>>, <<2911, 2913>>, <<2918, 2927>>, <<2929, 2935>>,
    <<2947, 2947>>, <<2949, 2954>>, <<2958, 2960>>, <<2962, 2965>>, <<2969, 2970>>, <<2972, 2972>>,
    <<2974, 2975>>, <<2979, 2980>>, <<2984, 2986>>, <<2990, 3001>>, <<3024, 3024>>, <<3046, 3058>>,
    <<3077, 3084>>, <<3086, 3088>>, <<3090, 3112>>, <<3114, 3129>>, <<3133, 3133>>, <<3160, 3162>>,
    <<3165, 3165>>, <<3168, 3169>>, <<3174, 3183>>, <<3192, 3198>>, <<3200, 3200>>, <<3205, 3212>>,
    <<3214, 3216>>, <<3218, 3240>>, <<3242, 3251>>, <<3253, 3257>>, <<3261, 3261>>, <<3293, 3294>>,
    <<3296, 3297>>, <<3302, 3311>>, <<3313, 3314>>, <<3332, 3340>>, <<3342, 3344>>, <<3346, 3386>>,
    <<3389, 3389>>, <<3406, 3406>>, <<3412, 3414>>, <<3416, 3425>>, <<3430, 3448>>, <<3450, 3455>>,
    <<3461, 3478>>, <<3482, 3505>>, <<3507, 3515>>, <<3517, 3517>>, <<3520, 3526>>, <<3558, 3567>>,
    <<3585, 3632>>, <<3634, 3635>>, <<3648, 3654>>, <<3664, 3673>>, <<3713, 3714>>, <<3716, 3716>>,
    <<3718, 3722>>, <<3724, 3747>>, <<3749, 3749>>, <<3751, 3760>>, <<3762, 3763>>, <<3773, 3773>>,
    <<3776, 3780>>, <<3782, 3782>>, <<3792, 3801>>, <<3804, 3807>>, <<3840, 3840>>, <<3872, 3891>>,
    <<3904, 3911>>, <<3913, 3948>>, <<3976, 3980>>, <<4096, 4138>>, <<4159, 4169>>, <<4176, 4181>>,
    <<4186, 4189>>, <<4193, 4193>>, <<4197, 4198>>, <<4206, 4208>>, <<4213, 4225>>, <<4238, 4238>>,
    <<4240, 4249>>, <<4256, 4293>>, <<4295, 4295>>, <<4301, 4301>>, <<4304, 4346>>, <<4348, 4680>>,
    <<4682, 4685>>, <<4688, 4694>>, <<4696, 4696>>, <<4698, 4701>>, <<4704, 4744>>, <<4746, 4749>>,
    <<4752, 4784>>, <<4786, 4789>>, <<4792, 4798>>, <<4800, 4800>>, <<4802, 4805>>, <<4808, 4822>>,
    <<4824, 4880>>, <<4882, 4885>>, <<4888, 4954>>, <<4969, 4988>>, <<4992, 5007>>, <<5024, 5109>>,
    <<5112, 5117>>, <<5121, 5740>>, <<5743, 5759>>, <<5761, 5786>>, <<5792, 5866>>, <<5870, 5880>>,
    <<5888, 5905>>, <<5919, 5937>>, <<5952, 5969>>, <<5984, 5996>>, <<5998, 6000>>, <<6016, 6067>>,
    <<6103, 6103>>, <<6108, 6108>>, <<6112, 6121>>, <<6128, 6137>>, <<6160, 6169>>, <<6176, 6264>>,
    <<6272, 6276>>, <<6279, 6312>>, <<6314, 6314>>, <<6320, 6389>>, <<6400, 6430>>, <<6470, 6509>>,
    <<6512, 6516>>, <<6528, 6571>>, <<6576, 6601>>, <<6608, 6618>>, <<6656, 6678>>, <<6688, 6740>>,
    <<6784, 6793>>, <<6800, 6809>>, <<6823, 6823>>, <<6917, 6963>>, <<6981, 6988>>, <<6992, 7001>>,
    <<7043, 7072>>, <<7086, 7141>>, <<7168, 7203>>, <<7232, 7241>>, <<7245, 7293>>, <<7296, 7304>>,
    <<7312, 7354>>, <<7357, 7359>>, <<7401, 7404>>, <<7406, 7411>>, <<7413, 7414>>, <<7418, 7418>>,
    <<7424, 7615>>, <<7680, 7957>>, <<7960, 7965>>, <<7968, 8005>>, <<8008, 8013>>, <<8016, 8023>>,
    <<8025, 8025>>, <<8027, 8027>>, <<8029, 8029>>, <<8031, 8061>>, <<8064, 8116>>, <<8118, 8124>>,
    <<8126, 8126>>, <<8130, 8132>>, <<8134, 8140>>, <<8144, 8147>>, <<8150, 8155>>, <<8160, 8172>>,
    <<8178, 8180>>, <<8182, 8188>>, <<8304, 8305>>, <<8308, 8313>>, <<8319, 8329>>, <<8336, 8348>>,
    <<8450, 8450>>, <<8455, 8455>>, <<8458, 8467>>, <<8469, 8469>>, <<8473, 8477>>, <<8484, 8484>>,
    <<8486, 8486>>, <<8488, 8488>>, <<8490, 8493>>, <<8495, 8505>>, <<8508, 8511>>, <<8517, 8521>>,
    <<8526, 8526>>, <<8528, 8585>>, <<9312, 9371>>, <<9450, 9471>>, <<10102, 10131>>, <<11264, 11492>>,
    <<11499, 11502>>, <<11506, 11507>>, <<11517, 11517>>, <<11520, 11557>>, <<11559, 11559>>, <<11565, 11565>>,
    <<11568, 11623>>, <<11631, 11631>>, <<11648, 11670>>, <<11680, 11686>>, <<11688, 11694>>, <<11696, 11702>>,
    <<11704, 11710>>, <<11712, 11718>>, <<11720, 11726>>, <<11728, 11734>>, <<11736, 11742>>, <<11823, 11823>>,
    <<12293, 12295>>, <<12321, 12329>>, <<12337, 12341>>, <<12344, 12348>>, <<12353, 12438>>, <<12445, 12447>>,
    <<12449, 12538>>, <<12540, 12543>>, <<12549, 12591>>, <<12593, 12686>>, <<12690, 12693>>, <<12704, 12735>>,
    <<12784, 12799>>, <<12832, 12841>>, <<12872, 12879>>, <<12881, 12895>>, <<12928, 12937>>, <<12977, 12991>>,
    <<13312, 19903>>, <<19968, 42124>>, <<42192, 42237>>, <<42240, 42508>>, <<42512, 42539>>, <<42560, 42606>>,
    <<42623, 42653>>, <<42656, 42735>>, <<42775, 42783>>, <<42786, 42888>>, <<42891, 42954>>, <<42960, 42961>>,
    <<42963, 42963>>, <<42965, 42969>>, <<42994, 43009>>, <<43011, 43013>>, <<43015, 43018>>, <<43020, 43042>>,
    <<43056, 43061>>, <<43072, 43123>>, <<43138, 43187>>, <<43216, 43225>>, <<43250, 43255>>, <<43259, 43259>>,
    <<43261, 43262>>, <<43264, 43301>>, <<43312, 43334>>, <<43360, 43388>>, <<43396, 43442>>, <<43471, 43481>>,
    <<43488, 43492>>, <<43494, 43518>>, <<43520, 43560>>, <<43584, 43586>>, <<43588, 43595>>, <<43600, 43609>>,
    <<43616, 43638>>, <<43642, 43642>>, <<43646, 43695>>, <<43697, 43697>>, <<43701, 43702>>, <<43705, 43709>>,
    <<43712, 43712>>, <<43714, 43714>>, <<43739, 43741>>, <<43744, 43754>>, <<43762, 43764>>, <<43777, 43782>>,
    <<43785, 43790>>, <<43793, 43798>>, <<43808, 43814>>, <<43816, 43822>>, <<43824, 43866>>, <<43868, 43881>>,
    <<43888, 44002>>, <<44016, 44025>>, <<44032, 55203>>, <<55216, 55238>>, <<55243, 55291>>, <<63744, 64109>>,
    <<64112, 64217>>, <<64256, 64262>>, <<64275, 64279>>, <<64285, 64285>>, <<64287, 64296>>, <<64298, 64310>>,
    <<64312, 64316>>, <<64318, 64318>>, <<64320, 64321>>, <<64323, 64324>>, <<64326, 64433>>, <<64467, 64829>>,
    <<64848, 64911>>, <<64914, 64967>>, <<65008, 65019>>, <<65136, 65140>>, <<65142, 65276>>, <<65296, 65305>>,
    <<65313, 65338>>, <<65345, 65370>>, <<65382, 65470>>, <<65474, 65479>>, <<65482, 65487>>, <<65490, 65495>>,
    <<65498, 65500>>, <<65536, 65547>>, <<65549, 65574>>, <<65576, 65594>>, <<65596, 65597>>, <<65599, 65613>>,
    <<65616, 65629>>, <<65664, 65786>>, <<65799, 65843>>, <<65856, 65912>>, <<65930, 65931>>, <<66176, 66204>>,
    <<66208, 66256>>, <<66273, 66299>>, <<66304, 66339>>, <<66349, 66378>>, <<66384, 66421>>, <<66432, 66461>>,
    <<66464, 66499>>, <<66504, 66511>>, <<66513, 66517>>, <<66560, 66717>>, <<66720, 66729>>, <<66736, 66771>>,
    <<66776, 66811>>, <<66816, 66855>>, <<66864, 66915>>, <<66928, 66938>>, <<66940, 66954>>, <<66956, 66962>>,
    <<66964, 66965>>, <<66967, 66977>>, <<66979, 66993>>, <<66995, 67001>>, <<67003, 67004>>, <<67072, 67382>>,
    <<67392, 67413>>, <<67424, 67431>>, <<67456, 67461>>, <<67463, 67504>>, <<67506, 67514>>, <<67584, 67589>>,
    <<67592, 67592>>, <<67594, 67637>>, <<67639, 67640>>, <<67644, 67644>>, <<67647, 67669>>, <<67672, 67702>>,
    <<67705, 67742>>, <<67751, 67759>>, <<67808, 67826>>, <<67828, 67829>>, <<67835, 67867>>, <<67872, 67897>>,
    <<67968, 68023>>, <<68028, 68047>>, <<68050, 68096>>, <<68112, 68115>>, <<68117, 68119>>, <<68121, 68149>>,
    <<68160, 68168>>, <<68192, 68222>>, <<68224, 68255>>, <<68288, 68295>>, <<68297, 68324>>, <<68331, 68335>>,
    <<68352, 68405>>, <<68416, 68437>>, <<68440, 68466>>, <<68472, 68497>>, <<68521, 68527>>, <<68608, 68680>>,
    <<68736, 68786>>, <<68800, 68850>>, <<68858, 68899>>, <<68912, 68921>>, <<69216, 69246>>, <<69248, 69289>>,
    <<69296, 69297>>, <<69376, 69415>>, <<69424, 69445>>, <<69457, 69460>>, <<69488, 69505>>, <<69552, 69579>>,
    <<69600, 69622>>, <<69635, 69687>>, <<69714, 69743>>, <<69745, 69746>>, <<69749, 69749>>, <<69763, 69807>>,
    <<69840, 69864>>, <<69872, 69881>>, <<69891, 69926>>, <<69942, 69951>>, <<69956, 69956>>, <<69959, 69959>>,
    <<69968, 70002>>, <<70006, 70006>>, <<70019, 70066>>, <<70081, 70084>>, <<70096, 70106>>, <<70108, 70108>>,
    <<70113, 70132>>, <<70144, 70161>>, <<70163, 70187>>, <<70272, 70278>>, <<70280, 70280>>, <<70282, 70285>>,
    <<70287, 70301>>, <<70303, 70312>>, <<70320, 70366>>, <<70384, 70393>>, <<70405, 70412>>, <<70415, 70416>>,
    <<70419, 70440>>, <<70442, 70448>>, <<70450, 70451>>, <<70453, 70457>>, <<70461, 70461>>, <<70480, 70480>>,
    <<70493, 70497>>, <<70656, 70708>>, <<70727, 70730>>, <<70736, 70745>>, <<70751, 70753>>, <<70784, 70831>>,
    <<70852, 70853>>, <<70855, 70855>>, <<70864, 70873>>, <<71040, 71086>>, <<71128, 71131>>, <<71168, 71215>>,
    <<71236, 71236>>, <<71248, 71257>>, <<71296, 71338>>, <<71352, 71352>>, <<71360, 71369>>, <<71424, 71450>>,
    <<71472, 71483>>, <<71488, 71494>>, <<71680, 71723>>, <<71840, 71922>>, <<71935, 71942>>, <<71945, 71945>>,
    <<71948, 71955>>, <<71957, 71958>>, <<71960, 71983>>, <<71999, 71999>>, <<72001, 72001>>, <<72016, 72025>>,
    <<72096, 72103>>, <<72106, 72144>>, <<72161, 72161>>, <<72163, 72163>>, <<72192, 72192>>, <<72203, 72242>>,
    <<72250, 72250>>, <<72272, 72272>>, <<72284, 72329>>, <<72349, 72349>>, <<72368, 72440>>, <<72704, 72712>>,
    <<72714, 72750>>, <<72768, 72768>>, <<72784, 72812>>, <<72818, 72847>>, <<72960, 72966>>, <<72968, 72969>>,
    <<72971, 73008>>, <<73030, 73030>>, <<73040, 73049>>, <<73056, 73061>>, <<73063, 73064>>, <<73066, 73097>>,
    <<73112, 73112>>, <<73120, 73129>>, <<73440, 73458>>, <<73648, 73648>>, <<73664, 73684>>, <<73728, 74649>>,
    <<74752, 74862>>, <<74880, 75075>>, <<77712, 77808>>, <<77824, 78894>>, <<82944, 83526>>, <<92160, 92728>>,
    <<92736, 92766>>, <<92768, 92777>>, <<92784, 92862>>, <<92864, 92873>>, <<92880, 92909>>, <<92928, 92975>>,
    <<92992, 92995>>, <<93008, 93017>>, <<93019, 93025>>, <<93027, 93047>>, <<93053, 93071>>, <<93760, 93846>>,
    <<93952, 94026>>, <<94032, 94032>>, <<94099, 94111>>, <<94176, 94177>>, <<94179, 94179>>, <<94208, 100343>>,
    <<100352, 101589>>, <<101632, 101640>>, <<110576, 110579>>, <<110581, 110587>>, <<110589, 110590>>, <<110592, 110882>>,
    <<110928, 110930>>, <<110948, 110951>>, <<110960, 111355>>, <<113664, 113770>>, <<113776, 113788>>, <<113792, 113800>>,
    <<113808, 113817>>, <<119520, 119539>>, <<119648, 119672>>, <<119808, 119892>>, <<119894, 119964>>, <<119966, 119967>>,
    <<119970, 119970>>, <<119973, 119974>>, <<119977, 119980>>, <<119982, 119993>>, <<119995, 119995>>, <<119997, 120003>>,
    <<120005, 120069>>, <<120071, 120074>>, <<120077, 120084>>, <<120086, 120092>>, <<120094, 120121>>, <<120123, 120126>>,
    <<120128, 120132>>, <<120134, 120134>>, <<120138, 120144>>, <<120146, 120485>>, <<120488, 120512>>, <<120514, 120538>>,
    <<120540, 120570>>, <<120572, 120596>>, <<120598, 120628>>, <<120630, 120654>>, <<120656, 120686>>, <<120688, 120712>>,
    <<120714, 120744>>, <<120746, 120770>>, <<120772, 120779>>, <<120782, 120831>>, <<122624, 122654>>, <<123136, 123180>>,
    <<123191, 123197>>, <<123200, 123209>>, <<123214, 123214>>, <<123536, 123565>>, <<123584, 123627>>, <<123632, 123641>>,
    <<124896, 124902>>, <<124904, 124907>>, <<124909, 124910>>, <<124912, 124926>>, <<124928, 125124>>, <<125127, 125135>>,
    <<125184, 125251>>, <<125259, 125259>>, <<125264, 125273>>, <<126065, 126123>>, <<126125, 126127>>, <<126129, 126132>>,
    <<126209, 126253>>, <<126255, 126269>>, <<126464, 126467>>, <<126469, 126495>>, <<126497, 126498>>, <<126500, 126500>>,
    <<126503, 126503>>, <<126505, 126514>>, <<126516, 126519>>, <<126521, 126521>>, <<126523, 126523>>, <<126530, 126530>>,
    <<126535, 126535>>, <<126537, 126537>>, <<126539, 126539>>, <<126541, 126543>>, <<126545, 126546>>, <<126548, 126548>>,
    <<126551, 126551>>, <<126553, 126553>>, <<126555, 126555>>, <<126557, 126557>>, <<126559, 126559>>, <<126561, 126562>>,
    <<126564, 126564>>, <<126567, 126570>>, <<126572, 126578>>, <<126580, 126583>>, <<126585, 126588>>, <<126590, 126590>>,
    <<126592, 126601>>, <<126603, 126619>>, <<126625, 126627>>, <<126629, 126633>>, <<126635, 126651>>, <<127232, 127244>>,
    <<130032, 130041>>, <<131072, 173791>>, <<173824, 177976>>, <<177984, 178205>>, <<178208, 183969>>, <<183984, 191456>>,
    <<194560, 195101>>, <<196608, 201546>> >>

\* the regex class \w
WordChars == UNION {WordRanges[k][1]..WordRanges[k][2] : k \in 1..Len(WordRanges)}

Max(a, b) == IF a >= b THEN a ELSE b

MinOf(S) == CHOOSE x \in S : \A y \in S : x <= y

MaxOf(S) == CHOOSE x \in S : \A y \in S : x >= y

\* the concatenation p[lo] \o ... \o p[hi] of a sequence of texts
RECURSIVE Cat(_, _, _)
Cat(p, lo, hi) ==
    IF lo > hi THEN <<>>
    ELSE IF lo = hi THEN p[lo]
    ELSE LET mid == (lo + hi) \div 2
         IN  Cat(p, lo, mid) \o Cat(p, mid + 1, hi)

-----------------------------------------------------------------------------
(* str.strip, str.split('\n'), '\n'.join *)

\* s.strip(): s without its leading and trailing whitespace
Strip(s) ==
    LET keep == {i \in 1..Len(s) : s[i] \notin Whitespace}
    IN  IF keep = {} THEN <<>> ELSE SubSeq(s, MinOf(keep), MaxOf(keep))

\* what a read of a file opened with open(filepath, 'r') yields for the text
\* s on disk: text mode turns every '\r\n' and every other '\r' into '\n'
UniversalNewlines(s) ==
    LET piece == [i \in 1..Len(s) |->
                    IF s[i] # CR THEN <<s[i]>>
                    ELSE IF i < Len(s) /\ s[i + 1] = NL THEN <<>>
                    ELSE <<NL>>]
    IN  Cat(piece, 1, Len(s))

\* content = f.read().strip()
Content(s) == Strip(UniversalNewlines(s))

\* s.split('\n'): one piece more than s has newlines
Split(s) ==
    LET nl == {i \in 1..Len(s) : s[i] = NL}
        \* position of the k-th newline; 0 and Len(s) + 1 bracket the text
        at(k) == IF k = 0 THEN 0
                 ELSE IF k > Cardinality(nl) THEN Len(s) + 1
                 ELSE CHOOSE p \in nl : Cardinality({q \in nl : q < p}) = k - 1
    IN  [k \in 1..(Cardinality(nl) + 1) |-> SubSeq(s, at(k - 1) + 1, at(k) - 1)]

\* '\n'.join(ls)
Join(ls) ==
    Cat([k \in 1..(2 * Len(ls) - 1) |->
            IF k % 2 = 1 THEN ls[(k + 1) \div 2] ELSE <<NL>>],
        1, 2 * Len(ls) - 1)

-----------------------------------------------------------------------------
(* The regular expressions *)

kw_package == Text(<<"p","a","c","k","a","g","e">>)

kw_import == Text(<<"i","m","p","o","r","t">>)

kw_public == Text(<<"p","u","b","l","i","c">>)

kw_class == Text(<<"c","l","a","s","s">>)

kw_interface == Text(<<"i","n","t","e","r","f","a","c","e">>)

kw_enum == Text(<<"e","n","u","m">>)

kw_private == Text(<<"p","r","i","v","a","t","e">>)

kw_protected == Text(<<"p","r","o","t","e","c","t","e","d">>)

kw_static == Text(<<"s","t","a","t","i","c">>)

kw_final == Text(<<"f","i","n","a","l">>)

Indent4 == Text(<<" ", " ", " ", " ">>)

\* the literal w occurs in s at position i
LitAt(w, s, i) ==
    /\ i + Len(w) - 1 <= Len(s)
    /\ \A k \in 1..Len(w) : s[i + k - 1] = w[k]

\* \b before a word character at position i
BoundaryAt(s, i) == i = 1 \/ s[i - 1] \notin WordChars

\* length of the run of characters of the set C starting at position i
RunLen(C, s, i) ==
    LET stop == {j \in i..Len(s) : s[j] \notin C}
    IN  (IF stop = {} THEN Len(s) + 1 ELSE MinOf(stop)) - i

\* length of the run of \s characters starting at position i
WsRun(s, i) == RunLen(Whitespace, s, i)

\* length of the run of newlines starting at position i
NlRun(s, i) == RunLen({NL}, s, i)

\* mutant: the replacement of ';' forgets the ';' itself
RuleLosesSemicolon(kind, w1, w2, repl) ==
    [kind |-> kind, w1 |-> w1, w2 |-> w2,
     repl |-> IF w1 = <<Semicolon>> THEN <<NL>> ELSE repl]

\* One (pattern, replacement) pair.  kind "word": \b w1 \s+ (then w2 \s+ when
\* w2 is not empty); kind "neg": \b w1 \s+ (?!class|interface|enum);
\* kind "char": the single character w1[1]; kind "nl3": \n{3,}.
Rule(kind, w1, w2, repl) == [kind |-> kind, w1 |-> w1, w2 |-> w2, repl |-> repl]

\* the list `replacements`, in the order of the source
replacements == <<
    Rule("word", kw_package, <<>>, <<NL>> \o kw_package \o <<SP>>),
    Rule("word", kw_import, <<>>, <<NL>> \o kw_import \o <<SP>>),
    Rule("word", kw_public, kw_class, <<NL, NL>> \o kw_public \o <<SP>> \o kw_class \o <<SP>>),
    Rule("word", kw_public, kw_interface, <<NL, NL>> \o kw_public \o <<SP>> \o kw_interface \o <<SP>>),
    Rule("word", kw_public, kw_enum, <<NL, NL>> \o kw_public \o <<SP>> \o kw_enum \o <<SP>>),
    Rule("word", kw_class, <<>>, <<NL>> \o kw_class \o <<SP>>),
    Rule("word", kw_interface, <<>>, <<NL>> \o kw_interface \o <<SP>>),
    Rule("word", kw_enum, <<>>, <<NL>> \o kw_enum \o <<SP>>),
    Rule("char", <<OpenBrace>>, <<>>, <<SP, OpenBrace, NL>>),
    Rule("char", <<CloseBrace>>, <<>>, <<NL, CloseBrace, NL>>),
    Rule("char", <<Semicolon>>, <<>>, <<Semicolon, NL>>),
    Rule("word", kw_private, <<>>, <<NL>> \o Indent4 \o kw_private \o <<SP>>),
    Rule("word", kw_protected, <<>>, <<NL>> \o Indent4 \o kw_protected \o <<SP>>),
    Rule("neg", kw_public, <<>>, <<NL>> \o Indent4 \o kw_public \o <<SP>>),
    Rule("word", kw_static, <<>>, kw_static \o <<SP>>),
    Rule("word", kw_final, <<>>, kw_final \o <<SP>>) >>

\* the alternatives of the negative lookahead of the 14th pattern
LookaheadWords == {kw_class, kw_interface, kw_enum}

\* the pattern of the blank-line clean-up
compactRule == Rule("nl3", <<NL>>, <<>>, <<NL, NL>>)

\* length of the match of the rule's pattern starting at position i of s
\* (0: no match there; no pattern of the source matches the empty string)
MatchLen(r, s, i) ==
    IF r.kind = "char" THEN (IF s[i] = r.w1[1] THEN 1 ELSE 0)
    ELSE IF r.kind = "nl3" THEN
        (LET n == NlRun(s, i) IN IF n >= 3 THEN n ELSE 0)
    ELSE IF ~(s[i] = r.w1[1] /\ BoundaryAt(s, i) /\ LitAt(r.w1, s, i)) THEN 0
    ELSE
        LET a  == i + Len(r.w1)
            n1 == WsRun(s, a)
            b  == a + n1
        IN  IF n1 = 0 THEN 0
            ELSE IF r.kind = "neg" THEN
                \* \s+ is greedy; when the lookahead rejects what follows the
                \* whole run, \s+ gives back one character and the lookahead
                \* then sees whitespace
                IF \E w \in LookaheadWords : LitAt(w, s, b)
                THEN (IF n1 >= 2 THEN Len(r.w1) + n1 - 1 ELSE 0)
                ELSE Len(r.w1) + n1
            ELSE IF r.w2 = <<>> THEN Len(r.w1) + n1
            ELSE
                LET n2 == WsRun(s, b + Len(r.w2))
                IN  IF LitAt(r.w2, s, b) /\ n2 > 0
                    THEN Len(r.w1) + n1 + Len(r.w2) + n2
                    ELSE 0

\* re.sub(pattern, replacement, s).  re.sub scans from the left and, after a
\* match, resumes behind it, so a position where the pattern would match is
\* replaced unless an earlier match has consumed it.  With the patterns of
\* the source the match that consumes such a position starts at the first
\* position of the overlap chain (a keyword pattern matches at a word
\* boundary only and never inside another match; a run of newlines is
\* consumed whole from its first newline), so "an earlier position matches
\* across i" and "an earlier match consumed i" are the same.
Sub(r, s) ==
    LET ml == [i \in 1..Len(s) |-> MatchLen(r, s, i)]
        \* the positions behind the first one of some match
        consumed == UNION {(j + 1)..(j + ml[j] - 1) : j \in {k \in 1..Len(s) : ml[k] > 0}}
        piece == [i \in 1..Len(s) |->
                    IF i \in consumed THEN <<>>
                    ELSE IF ml[i] > 0 THEN r.repl
                    ELSE <<s[i]>>]
    IN  Cat(piece, 1, Len(s))

-----------------------------------------------------------------------------
(* The stages of reformat_java_file *)

SkipLines == 5

IndentWidth == 4

\* mutant: the line count compared with one too many
SkipGuardOffByOne(c) ==
    (\E i \in 1..Len(c) : c[i] = NL) /\ Len(Split(c)) > SkipLines + 1

\* the test of the early return
SkipGuard(c) == (\E i \in 1..Len(c) : c[i] = NL) /\ Len(Split(c)) > SkipLines

\* content.replace('\n', ' ')
Flatten(c) == [i \in 1..Len(c) |-> IF c[i] = NL THEN SP ELSE c[i]]

\* for pattern, replacement in replacements: content = re.sub(...)
RECURSIVE ApplyRules(_, _)
ApplyRules(c, k) ==
    IF k > Len(replacements) THEN c
    ELSE ApplyRules(Sub(replacements[k], c), k + 1)

Rewrite(c) == ApplyRules(c, 1)

\* re.sub(r'\n{3,}', '\n\n', content)
Compact(c) == Sub(compactRule, c)

Spaces(n) == [i \in 1..n |-> SP]

\* mutant: the decrement without max(0, ...)
DedentUnclamped(lvl) == lvl - 1

\* indent_level after a line that starts with '}'
Dedent(lvl) == Max(0, lvl - 1)

\* mutant: the loop without `if not line: continue`
IndentStepKeepsBlank(st, raw) ==
    LET line == Strip(raw)
        l1 == IF line # <<>> /\ line[1] = CloseBrace THEN Dedent(st.lvl) ELSE st.lvl
        l2 == IF line # <<>> /\ line[Len(line)] = OpenBrace THEN l1 + 1 ELSE l1
    IN  [out |-> Append(st.out, Spaces(IndentWidth * l1) \o line), lvl |-> l2]

\* one iteration of the for loop: st = [out, lvl], raw the next element of lines
IndentStep(st, raw) ==
    LET line == Strip(raw)
    IN  IF line = <<>> THEN st
        ELSE LET l1 == IF line[1] = CloseBrace THEN Dedent(st.lvl) ELSE st.lvl
                 l2 == IF line[Len(line)] = OpenBrace THEN l1 + 1 ELSE l1
             IN  [out |-> Append(st.out, Spaces(IndentWidth * l1) \o line),
                  lvl |-> l2]

RECURSIVE IndentPass(_, _)
IndentPass(st, ls) ==
    IF ls = <<>> THEN st ELSE IndentPass(IndentStep(st, Head(ls)), Tail(ls))

\* mutant: the write without the trailing newline
RenderedNoNewline(fl) == Join(fl)

\* what f.write receives
Rendered(fl) == Join(fl) \o <<NL>>

\* reformat_java_file as a function of the file's text: the text it leaves
\* and the value it returns
Reformat(text) ==
    LET c == Content(text)
    IN  IF SkipGuard(c) THEN [out |-> text, changed |-> "False"]
        ELSE LET st == IndentPass([out |-> <<>>, lvl |-> 0],
                                  Split(Compact(Rewrite(Flatten(c)))))
             IN  [out |-> Rendered(st.out), changed |-> "True"]

-----------------------------------------------------------------------------
(* The texts a file may hold before the first call *)

MaxFrags == 3

\* "\n\n\n;\n\n": a statement between blank lines
BlankBlock == <<NL, NL, NL, Semicolon, NL, NL>>

Fragments ==
    {<<SP>>, <<NL>>, BlankBlock, <<OpenBrace>>, <<CloseBrace>>, <<Semicolon>>, Text(<<"x">>),
     kw_class, kw_public, kw_private, kw_static, kw_final}

\* the texts made of exactly k fragments
RECURSIVE FragTexts(_)
FragTexts(k) ==
    IF k = 0 THEN {<<>>}
    ELSE {f \o t : f \in Fragments, t \in FragTexts(k - 1)}

\* class Foo{private int x;public Foo(){x=0;}}
ScenarioInput ==
    Text(<<"c","l","a","s","s"," ","F","o","o","{","p","r","i","v","a","t","e"," ",
      "i","n","t"," ","x",";","p","u","b","l","i","c"," ","F","o","o","(",")",
      "{","x","=","0",";","}","}">>)

\* the scenario text formatted: six lines, indented at depths 0,1,1,2,1,0
ScenarioOutput ==
    Text(<<"c","l","a","s","s"," ","F","o","o"," ","{","\n",
      " "," "," "," ","p","r","i","v","a","t","e"," ","i","n","t"," ","x",";","\n",
      " "," "," "," ","p","u","b","l","i","c"," ","F","o","o","(",")"," ","{","\n",
      " "," "," "," "," "," "," "," ","x","=","0",";","\n",
      " "," "," "," ","}","\n",
      "}","\n">>)

\* public class Foo{}
PublicClassInput ==
    Text(<<"p","u","b","l","i","c"," ","c","l","a","s","s"," ","F","o","o","{","}">>)

\* public interface Foo{}
PublicInterfaceInput ==
    Text(<<"p","u","b","l","i","c"," ","i","n","t","e","r","f","a","c","e"," ",
      "F","o","o","{","}">>)

\* public enum Foo{}
PublicEnumInput ==
    Text(<<"p","u","b","l","i","c"," ","e","n","u","m"," ","F","o","o","{","}">>)

\* package a; import b; public class Foo{protected static final int finalScore=1;int myclass = 2;}
KeywordsInput ==
    Text(<<"p","a","c","k","a","g","e"," ","a",";"," ","i","m","p","o","r","t"," ",
      "b",";"," ","p","u","b","l","i","c"," ","c","l","a","s","s"," ","F","o",
      "o","{","p","r","o","t","e","c","t","e","d"," ","s","t","a","t","i","c",
      " ","f","i","n","a","l"," ","i","n","t"," ","f","i","n","a","l","S","c",
      "o","r","e","=","1",";","i","n","t"," ","m","y","c","l","a","s","s"," ",
      "="," ","2",";","}">>)

\* class A{int x;// final
\* }class B{}
CommentInput ==
    Text(<<"c","l","a","s","s"," ","A","{","i","n","t"," ","x",";","/","/"," ",
      "f","i","n","a","l","\n","}","c","l","a","s","s"," ","B","{","}">>)

\* class, a form feed, A{}: white space that is not a blank, tab or newline
FormFeedInput == Text(<<"c","l","a","s","s","\f","A","{","}">>)

\* class A{ / int x; / } with CRLF line ends, and a lone CR at the end
CrlfInput ==
    Text(<<"c","l","a","s","s"," ","A","{","\r","\n","i","n","t"," ","x",";",
      "\r","\n","}","\r">>)

\* U+00E9 class A{}: an identifier that starts with a letter outside ASCII
\* and ends in class
LatinInput == <<233>> \o Text(<<"c","l","a","s","s"," ","A","{","}">>)

\* U+1680 x U+3000 static U+2003 x;  : white space outside Latin-1 around
\* the text and behind a keyword
WideSpaceInput ==
    <<5760>> \o Text(<<"x">>) \o <<12288>> \o kw_static \o <<8195>>
        \o Text(<<"x", ";">>) \o <<8232>>

\* U+03A9 class A{} and U+2082 final x: a Greek letter and a subscript digit
\* in front of a keyword, and U+10400 (4 bytes in UTF-8) behind a brace
WideWordInput ==
    <<937>> \o kw_class \o Text(<<" ","A","{","}">>) \o <<8322>> \o kw_final
        \o Text(<<" ","x","{">>) \o <<66560>>

\* a$class x; : a Java name that ends in class behind a '$'
DollarInput == Text(<<"a","$","c","l","a","s","s"," ","x",";">>)

\* mypackage a;reimport b;xinterface c;myenum d;unprotected e;
\* names that end in a keyword, each followed by a blank
EmbeddedInput ==
    Text(<<"m","y","p","a","c","k","a","g","e"," ","a",";",
           "r","e","i","m","p","o","r","t"," ","b",";",
           "x","i","n","t","e","r","f","a","c","e"," ","c",";",
           "m","y","e","n","u","m"," ","d",";",
           "u","n","p","r","o","t","e","c","t","e","d"," ","e",";">>)

Samples ==
    {ScenarioInput, PublicClassInput, PublicInterfaceInput, PublicEnumInput,
     KeywordsInput, CommentInput, FormFeedInput, CrlfInput, LatinInput,
     WideSpaceInput, WideWordInput, DollarInput, EmbeddedInput}

Inputs == UNION {FragTexts(k) : k \in 0..MaxFrags} \cup Samples

-----------------------------------------------------------------------------
(* reformat_java_file, statement by statement *)

NoFailure == [at |-> 0, op |-> "none"]

NoBatch ==
    /\ fs = <<>>
    /\ idx = 0
    /\ reformatted = <<>>
    /\ bpc = "off"
    /\ reported = -1
    /\ failedAt = NoFailure

\* the bytes open(filepath, 'w') makes of the character c: its UTF-8 encoding
Utf8(c) ==
    IF c < 128 THEN <<c>>
    ELSE IF c < 2048 THEN <<192 + (c \div 64), 128 + (c % 64)>>
    ELSE IF c < 65536 THEN
        <<224 + (c \div 4096), 128 + ((c \div 64) % 64), 128 + (c % 64)>>
    ELSE <<240 + (c \div 262144), 128 + ((c \div 4096) % 64),
           128 + ((c \div 64) % 64), 128 + (c % 64)>>

\* the ways the bytes of c can be cut short: the first m bytes of a character
\* of more than m bytes.  Such bytes are no character; in a file they are
\* written as negative numbers
CutInside(c) == {[j \in 1..m |-> 0 - Utf8(c)[j]] : m \in 1..(Len(Utf8(c)) - 1)}

\* what filepath can hold when open(filepath, 'w') or the write of line 66
\* raises: the old text (open failed), or the part of the bytes of the new
\* text that went out before the error (open truncates; none, some or all of
\* them, the last character possibly cut inside)
WriteOutcomes(old, new) ==
    {old}
        \cup {SubSeq(new, 1, k) : k \in 0..Len(new)}
        \cup UNION {{SubSeq(new, 1, k - 1) \o cut : cut \in CutInside(new[k])} :
                        k \in 1..Len(new)}

Init ==
    /\ file \in Inputs
    /\ original = file
    /\ content = <<>>
    /\ lines = <<>>
    /\ formatted_lines = <<>>
    /\ indent_level = 0
    /\ changed = "none"
    /\ pc = "start"
    /\ rerun = FALSE
    /\ out1 = <<>>
    /\ NoBatch

\* with open(filepath, 'r') as f: content = f.read().strip()
Read ==
    /\ pc = "start"
    /\ content' = Content(file)
    /\ pc' = "read"
    /\ UNCHANGED <<file, lines, formatted_lines, indent_level, changed,
                   original, rerun, out1, batchVars>>

\* if '\n' in content and len(content.split('\n')) > 5: return False
Skip ==
    /\ pc = "read"
    /\ SkipGuard(content)
    /\ changed' = "False"
    /\ pc' = "done"
    /\ UNCHANGED <<file, content, lines, formatted_lines, indent_level,
                   original, rerun, out1, batchVars>>

\* content = content.replace('\n', ' ')
FlattenStep ==
    /\ pc = "read"
    /\ ~SkipGuard(content)
    /\ content' = Flatten(content)
    /\ pc' = "flat"
    /\ UNCHANGED <<file, lines, formatted_lines, indent_level, changed,
                   original, rerun, out1, batchVars>>

\* the loop over replacements
RewriteStep ==
    /\ pc = "flat"
    /\ content' = Rewrite(content)
    /\ pc' = "rewritten"
    /\ UNCHANGED <<file, lines, formatted_lines, indent_level, changed,
                   original, rerun, out1, batchVars>>

\* content = re.sub(r'\n{3,}', '\n\n', content); lines = content.split('\n');
\* formatted_lines = []; indent_level = 0
CompactStep ==
    /\ pc = "rewritten"
    /\ content' = Compact(content)
    /\ lines' = Split(Compact(content))
    /\ formatted_lines' = <<>>
    /\ indent_level' = 0
    /\ pc' = "indent"
    /\ UNCHANGED <<file, changed, original, rerun, out1, batchVars>>

\* one iteration of `for line in lines`
IndentLine ==
    /\ pc = "indent"
    /\ lines # <<>>
    /\ LET st == IndentStep([out |-> formatted_lines, lvl |-> indent_level],
                            Head(lines))
       IN  /\ formatted_lines' = st.out
           /\ indent_level' = st.lvl
    /\ lines' = Tail(lines)
    /\ UNCHANGED <<file, content, changed, pc, original, rerun, out1, batchVars>>

\* with open(filepath, 'w') as f: f.write(...); return True
Write ==
    /\ pc = "indent"
    /\ lines = <<>>
    /\ file' = Rendered(formatted_lines)
    /\ changed' = "True"
    /\ pc' = "done"
    /\ UNCHANGED <<content, lines, formatted_lines, indent_level, original,
                   rerun, out1, batchVars>>

\* open(filepath, 'r') or read() raises (OSError, UnicodeDecodeError): the
\* call ends without a return value and the file is as it was
ReadFails ==
    /\ pc = "start"
    /\ pc' = "raised"
    /\ UNCHANGED <<file, content, lines, formatted_lines, indent_level, changed,
                   original, rerun, out1, batchVars>>

\* open(filepath, 'w') or write() raises OSError: no return value
WriteFails ==
    /\ pc = "indent"
    /\ lines = <<>>
    /\ file' \in WriteOutcomes(file, Rendered(formatted_lines))
    /\ pc' = "raised"
    /\ UNCHANGED <<content, lines, formatted_lines, indent_level, changed,
                   original, rerun, out1, batchVars>>

\* reformat_java_file is called once more on the file it left
Rerun ==
    /\ pc = "done"
    /\ ~rerun
    /\ rerun' = TRUE
    /\ out1' = file
    /\ content' = <<>>
    /\ lines' = <<>>
    /\ formatted_lines' = <<>>
    /\ indent_level' = 0
    /\ changed' = "none"
    /\ pc' = "start"
    /\ UNCHANGED <<file, original, batchVars>>

Next ==
    \/ Read
    \/ Skip
    \/ FlattenStep
    \/ RewriteStep
    \/ CompactStep
    \/ IndentLine
    \/ Write
    \/ ReadFails
    \/ WriteFails
    \/ Rerun

Spec == Init /\ [][Next]_vars

-----------------------------------------------------------------------------
(* The module-level loop over src/main/java *)

MaxFiles == 3

CandidateMaxLines == 3

CandidateMinChars == 200

\* len(f.readlines()) for the text s on disk: the lines of the text as read
PhysicalLines(s) ==
    LET t == UniversalNewlines(s)
    IN  Cardinality({i \in 1..Len(t) : t[i] = NL})
            + (IF t # <<>> /\ t[Len(t)] # NL THEN 1 ELSE 0)

\* the candidate test without its len(lines) <= 3 half
CandidateAnyLines(text) == Len(UniversalNewlines(text)) > CandidateMinChars

\* if len(lines) <= 3: chars = sum(len(line) for line in lines); if chars > 200
\* (the lines as read: their lengths add up to the length of the text as read)
Candidate(text) ==
    /\ PhysicalLines(text) <= CandidateMaxLines
    /\ Len(UniversalNewlines(text)) > CandidateMinChars

\* the scenario text padded with spaces to 203 characters, on one line
LongScenario == ScenarioInput \o Spaces(160)

\* 201 characters without any brace, keyword or semicolon, on one line
LongFlat == [i \in 1..201 |-> Code["x"]]

\* 206 characters on exactly 3 physical lines, the last one unterminated;
\* the second line starts with U+00E9, 2 bytes in UTF-8
LongThreeLines == <<OpenBrace, NL, 233>> \o LongFlat \o <<NL, CloseBrace>>

\* 213 characters on 18 lines: a long file that is formatted already
LongFormatted == ScenarioOutput \o ScenarioOutput \o ScenarioOutput

\* 198 x, CRLF, y: 201 characters on disk, 200 as read, on 2 lines
CrlfBoundary == [i \in 1..198 |-> Code["x"]] \o <<CR, NL, Code["y"]>>

\* what a .java file under src/main/java may hold
FileChoices == {LongScenario, LongThreeLines, LongFormatted, CrlfBoundary}

NoCall ==
    /\ file = <<>>
    /\ content = <<>>
    /\ lines = <<>>
    /\ formatted_lines = <<>>
    /\ indent_level = 0
    /\ changed = "none"
    /\ pc = "off"
    /\ rerun = FALSE
    /\ out1 = <<>>

\* reformatted = [] and the files os.walk will yield
BatchInit ==
    /\ fs \in UNION {[1..n -> FileChoices] : n \in 1..MaxFiles}
    /\ idx = 1
    /\ reformatted = <<>>
    /\ bpc = "loop"
    /\ reported = -1
    /\ failedAt = NoFailure
    /\ original = fs
    /\ NoCall

\* an iteration for a file that fails the len(lines) <= 3 / chars > 200 tests
BatchPass ==
    /\ bpc = "loop"
    /\ idx <= Len(fs)
    /\ ~Candidate(fs[idx])
    /\ idx' = idx + 1
    /\ UNCHANGED <<fs, reformatted, bpc, reported, failedAt, fileVars>>

\* an iteration for a candidate: if reformat_java_file(filepath):
\* reformatted.append(filepath); print(...)
BatchReformat ==
    /\ bpc = "loop"
    /\ idx <= Len(fs)
    /\ Candidate(fs[idx])
    /\ LET r == Reformat(fs[idx])
       IN  /\ fs' = [fs EXCEPT ![idx] = r.out]
           /\ reformatted' = IF r.changed = "True"
                             THEN Append(reformatted, idx)
                             ELSE reformatted
    /\ idx' = idx + 1
    /\ UNCHANGED <<bpc, reported, failedAt, fileVars>>

\* print of line 84 raises (a stdout that cannot encode the message, or a
\* full device) after the file was rewritten and appended; nothing catches it
PrintFails ==
    /\ bpc = "loop"
    /\ idx <= Len(fs)
    /\ Candidate(fs[idx])
    /\ LET r == Reformat(fs[idx])
       IN  /\ r.changed = "True"
           /\ fs' = [fs EXCEPT ![idx] = r.out]
           /\ reformatted' = Append(reformatted, idx)
    /\ bpc' = "aborted"
    /\ failedAt' = [at |-> idx, op |-> "print"]
    /\ UNCHANGED <<idx, reported, fileVars>>

\* open(filepath, 'r') or readlines() of the loop raises OSError; nothing
\* catches it and the interpreter exits
BatchOpenFails ==
    /\ bpc = "loop"
    /\ idx <= Len(fs)
    /\ bpc' = "aborted"
    /\ failedAt' = [at |-> idx, op |-> "loop open"]
    /\ UNCHANGED <<fs, idx, reformatted, reported, fileVars>>

\* open(filepath, 'r') or read() inside reformat_java_file raises OSError
ReformatReadFails ==
    /\ bpc = "loop"
    /\ idx <= Len(fs)
    /\ Candidate(fs[idx])
    /\ bpc' = "aborted"
    /\ failedAt' = [at |-> idx, op |-> "reformat read"]
    /\ UNCHANGED <<fs, idx, reformatted, reported, fileVars>>

\* open(filepath, 'w') raises OSError (the file keeps its text), or write()
\* raises it after open has truncated the file and a part of the new text
\* went out
ReformatWriteFails ==
    /\ bpc = "loop"
    /\ idx <= Len(fs)
    /\ Candidate(fs[idx])
    /\ ~SkipGuard(Content(fs[idx]))
    /\ \E left \in WriteOutcomes(fs[idx], Reformat(fs[idx]).out) :
          fs' = [fs EXCEPT ![idx] = left]
    /\ bpc' = "aborted"
    /\ failedAt' = [at |-> idx, op |-> "reformat write"]
    /\ UNCHANGED <<idx, reformatted, reported, fileVars>>

\* print(f"... Total files reformatted: {len(reformatted)}")
BatchReport ==
    /\ bpc = "loop"
    /\ idx > Len(fs)
    /\ reported' = Len(reformatted)
    /\ bpc' = "reported"
    /\ UNCHANGED <<fs, idx, reformatted, failedAt, fileVars>>

\* print of line 86 raises: every file was handled and no total comes out
ReportFails ==
    /\ bpc = "loop"
    /\ idx > Len(fs)
    /\ bpc' = "aborted"
    /\ failedAt' = [at |-> idx, op |-> "print total"]
    /\ UNCHANGED <<fs, idx, reformatted, reported, fileVars>>

\* the script is run a second time on the tree the first run left:
\* reformatted = [] again, os.walk from the first file
BatchAgain ==
    /\ bpc = "reported"
    /\ ~rerun
    /\ rerun' = TRUE
    /\ out1' = fs
    /\ idx' = 1
    /\ reformatted' = <<>>
    /\ reported' = -1
    /\ bpc' = "loop"
    /\ UNCHANGED <<fs, failedAt, original, file, content, lines,
                   formatted_lines, indent_level, changed, pc>>

BatchNext ==
    \/ BatchPass
    \/ BatchReformat
    \/ BatchOpenFails
    \/ ReformatReadFails
    \/ ReformatWriteFails
    \/ BatchReport
    \/ PrintFails
    \/ ReportFails
    \/ BatchAgain

SpecBatch == BatchInit /\ [][BatchNext]_vars

-----------------------------------------------------------------------------
(* Vocabulary of the properties *)

\* the text the running (or last) call of reformat_java_file was given
input == IF rerun THEN out1 ELSE original

CountChar(c, s) == Cardinality({i \in 1..Len(s) : s[i] = c})

IsNonWs(c) == c \notin Whitespace

\* the non-whitespace characters of s, in order
NonWs(s) == SelectSeq(s, IsNonWs)

HasTripleNL(s) ==
    \E i \in 1..(Len(s) - 2) : s[i] = NL /\ s[i + 1] = NL /\ s[i + 2] = NL

-----------------------------------------------------------------------------
(* C1: skip guard *)

\* C1 as stated: whenever the text given to reformat_java_file has more than
\* 5 lines, the call returns False and leaves the file as it was.
C1_SkipOnMoreThanFiveLines ==
    (pc = "done" /\ PhysicalLines(input) > 5)
        => (changed = "False" /\ file = input)

\* C1, amended: whenever the text given to reformat_java_file, stripped of its
\* leading and trailing whitespace, splits at newlines into more than 5 lines,
\* the file is never rewritten during the call and the call returns False.
C1_SkipOnMoreThanFiveStrippedLines ==
    Len(Split(Content(input))) > 5
        => /\ file = input
           /\ changed # "True"
           /\ pc = "done" => changed = "False"

\* a first call returned False on a text of more than 5 stripped lines
C1_Witness ==
    /\ pc = "done"
    /\ ~rerun
    /\ Len(Split(Content(original))) > 5
    /\ changed = "False"
    /\ file = original

-----------------------------------------------------------------------------
(* C2: idempotence *)

\* C2: the text a second call of reformat_java_file leaves is the text the
\* first call left.
C2_Idempotent == (pc = "done" /\ rerun) => file = out1

-----------------------------------------------------------------------------
(* C3: brace conservation *)

\* C3: when a call has returned, the file holds as many '{' and as many '}'
\* as the original text, and the same non-whitespace characters in the same
\* order.
C3_BraceConservation ==
    pc = "done" =>
        /\ CountChar(OpenBrace, file) = CountChar(OpenBrace, original)
        /\ CountChar(CloseBrace, file) = CountChar(CloseBrace, original)
        /\ NonWs(file) = NonWs(original)

\* a call rewrote a text that holds braces and semicolons
C3_Witness ==
    /\ pc = "done"
    /\ changed = "True"
    /\ file # input
    /\ CountChar(OpenBrace, input) > 0
    /\ CountChar(CloseBrace, input) > 0
    /\ CountChar(Semicolon, input) > 0

-----------------------------------------------------------------------------
(* C4: blank-line bound *)

\* C4 as stated: when a call has returned, the file never holds 3 or more
\* consecutive newlines.
C4_NoTripleNewline == pc = "done" => ~HasTripleNL(file)

\* C4, amended: when a call has returned True (the skip guard did not trip),
\* the file holds no 3 consecutive newlines.
C4_NoTripleNewlineWhenRewritten ==
    (pc = "done" /\ changed = "True") => ~HasTripleNL(file)

\* a call rewrote a text that held 3 consecutive newlines
C4_Witness ==
    /\ pc = "done"
    /\ changed = "True"
    /\ HasTripleNL(input)
    /\ ~HasTripleNL(file)

-----------------------------------------------------------------------------
(* C5: indentation against the running brace count *)

\* the lines of a written file (the text ends with the newline of the write)
OutLines(f) == LET p == Split(f) IN SubSeq(p, 1, Len(p) - 1)

LeadingSpaces(l) == RunLen({SP}, l, 1)

\* a line without its indentation
Body(l) == SubSeq(l, LeadingSpaces(l) + 1, Len(l))

StartsWithClose(l) == Body(l) # <<>> /\ Body(l)[1] = CloseBrace

IsBrace(c) == c \in {OpenBrace, CloseBrace}

\* the braces of the lines before line j, in order
BracesBefore(ls, j) == SelectSeq(Cat(ls, 1, j - 1), IsBrace)

\* opens minus closes along bs, from depth d at position i, never below 0
RECURSIVE ClampedDepth(_, _, _)
ClampedDepth(bs, i, d) ==
    IF i > Len(bs) THEN d
    ELSE ClampedDepth(bs, i + 1, IF bs[i] = OpenBrace THEN d + 1 ELSE Max(0, d - 1))

\* C5: when a call has returned True, every line of the file that does not
\* start with '}' is indented by 4 spaces times the clamped (opens - closes)
\* count of all braces on the lines before it.
C5_MonotonicIndentation ==
    (pc = "done" /\ changed = "True") =>
        \A j \in 1..Len(OutLines(file)) :
            LET l == OutLines(file)[j]
            IN  ~StartsWithClose(l) =>
                    LeadingSpaces(l) =
                        IndentWidth * ClampedDepth(BracesBefore(OutLines(file), j), 1, 0)

-----------------------------------------------------------------------------
(* C6: keyword isolation *)

\* the characters of an identifier of the reformatted language: those of \w
\* and the '$' Java allows in a name
IdentChars == WordChars \cup {Code["$"]}

\* the identifiers and other words of s: its maximal runs of identifier
\* characters, in order
Words(s) ==
    LET st == {i \in 1..Len(s) :
                  s[i] \in IdentChars /\ (i = 1 \/ s[i - 1] \notin IdentChars)}
        at(k) == CHOOSE p \in st : Cardinality({q \in st : q < p}) = k - 1
    IN  [k \in 1..Cardinality(st) |->
            SubSeq(s, at(k), at(k) + RunLen(IdentChars, s, at(k)) - 1)]

\* the keywords whose replacement starts a new line
BreakKeywords ==
    {kw_package, kw_import, kw_class, kw_interface, kw_enum, kw_private,
     kw_protected, kw_public}

FirstWord(l) ==
    IF l # <<>> /\ l[1] \in IdentChars
    THEN SubSeq(l, 1, RunLen(IdentChars, l, 1))
    ELSE <<>>

\* the break before line j of ls is one the rewriter puts after '{', '}', ';',
\* before '}', or before a keyword standing alone
BreakExplained(ls, j) ==
    LET prev == Body(ls[j - 1])
        cur  == Body(ls[j])
    IN  \/ StartsWithClose(ls[j])
        \/ prev # <<>> /\ prev[Len(prev)] \in {OpenBrace, CloseBrace, Semicolon}
        \/ FirstWord(cur) \in BreakKeywords

\* C6: when a call has returned, the identifiers (maximal runs of identifier
\* characters) of the file are those of the original text, so no identifier
\* that contains a keyword was split; and when it returned True no line
\* starts inside an identifier: each line break stands after '{', '}' or
\* ';', before '}', or before a keyword that is a whole word.
C6_KeywordIsolation ==
    pc = "done" =>
        /\ Words(file) = Words(original)
        /\ changed = "True" =>
              \A j \in 2..Len(OutLines(file)) : BreakExplained(OutLines(file), j)

-----------------------------------------------------------------------------
(* C7: the scenario *)

\* C7: the first call on `class Foo{private int x;public Foo(){x=0;}}`
\* returns True and leaves exactly the six indented lines and one trailing
\* newline.
C7_Scenario ==
    (pc = "done" /\ ~rerun /\ original = ScenarioInput) =>
        (changed = "True" /\ file = ScenarioOutput)

\* the first call on the scenario text has returned
C7_Witness ==
    /\ pc = "done"
    /\ ~rerun
    /\ original = ScenarioInput
    /\ Len(OutLines(file)) = 6

-----------------------------------------------------------------------------
(* C8: batch error isolation *)

\* the calls that read or write a .java file
FileCalls == {"loop open", "reformat read", "reformat write"}

\* C8: an I/O error on one file never aborts the batch: the loop stays able
\* to go on to the remaining files and to report the total.
C8_BatchErrorIsolation ==
    failedAt.op \in FileCalls => bpc \in {"loop", "reported"}

-----------------------------------------------------------------------------
(* C9: public class / interface / enum headers *)

PublicHeaders ==
    {<<PublicClassInput, kw_public \o <<SP>> \o kw_class \o Text(<<" ","F","o","o"," ","{">>) >>,
     <<PublicInterfaceInput, kw_public \o <<SP>> \o kw_interface \o Text(<<" ","F","o","o"," ","{">>) >>,
     <<PublicEnumInput, kw_public \o <<SP>> \o kw_enum \o Text(<<" ","F","o","o"," ","{">>) >>}

\* C9: the first call on `public class Foo{}` (likewise interface, enum)
\* leaves the header on one line, `public class Foo {`.
C9_PublicHeaderOnOneLine ==
    (pc = "done" /\ ~rerun) =>
        \A h \in PublicHeaders :
            original = h[1] => (changed = "True" /\ OutLines(file)[1] = h[2])

-----------------------------------------------------------------------------
(* C10: the depth counter *)

\* the loop is about to visit a line that starts with '}' at depth 0
ClosingAtZero ==
    /\ pc = "indent"
    /\ lines # <<>>
    /\ Strip(Head(lines)) # <<>>
    /\ Strip(Head(lines))[1] = CloseBrace
    /\ indent_level = 0

\* C10: indent_level is a natural number in every state; the loop can always
\* take its next step; a line that starts with '}' met at depth 0 leaves the
\* depth at 0 and is emitted without indentation; and the loop is left only
\* when every line was visited, with the write enabled then, and the call
\* that returns has returned True and written the lines, whatever the braces
\* were (only an I/O error of the write itself can end the call otherwise).
C10_DepthInvariant ==
    /\ [](indent_level \in Nat)
    /\ [](pc = "indent" => ENABLED (IndentLine \/ Write))
    /\ [][ClosingAtZero =>
            /\ indent_level' = 0
            /\ formatted_lines' = Append(formatted_lines, Strip(Head(lines)))]_vars
    /\ [](pc = "indent" /\ lines = <<>> => ENABLED Write)
    /\ [][(pc = "indent" /\ pc' # "indent") =>
            /\ lines = <<>>
            /\ pc' \in {"done", "raised"}
            /\ pc' = "done" =>
                  /\ changed' = "True"
                  /\ file' = Rendered(formatted_lines)
            /\ pc' = "raised" =>
                  /\ changed' = "none"
                  /\ file' \in WriteOutcomes(file, Rendered(formatted_lines))]_vars

\* a call returned True on a text with a surplus '}' and an unclosed '{':
\* the '}' was emitted at depth 0 and the depth is 1 at the end
C10_Witness ==
    /\ pc = "done"
    /\ changed = "True"
    /\ input = Text(<<"}", "x", "{">>)
    /\ formatted_lines = << <<CloseBrace>>, Text(<<"x"," ","{">>) >>
    /\ indent_level = 1

\* ---- C11 --------------------------------------------------------------

\* every '}' of line l is the only non-whitespace character of l
CloseAlone(l) == \A i \in 1..Len(l) : l[i] = CloseBrace => NonWs(l) = <<CloseBrace>>

\* every '{' of line l is the last character of l
OpenLast(l) == \A i \in 1..Len(l) : l[i] = OpenBrace => i = Len(l)

\* the braces the indentation pass looks at: a first '}' and a last '{'
ObservedBraces(ls) ==
    Cardinality({j \in 1..Len(ls) : StartsWithClose(ls[j])})
    + Cardinality({j \in 1..Len(ls) : ls[j] # <<>> /\ ls[j][Len(ls[j])] = OpenBrace})

\* C11: when a call has returned True, every '}' of the file is the only
\* non-whitespace character of its line, every '{' is the last character of
\* its line, and the lines that start with '}' or end with '{' are as many
\* as the braces of the text the call was given.
C11_BracePlacement ==
    (pc = "done" /\ changed = "True") =>
        LET ls == OutLines(file)
        IN  /\ \A j \in 1..Len(ls) : CloseAlone(ls[j]) /\ OpenLast(ls[j])
            /\ ObservedBraces(ls) = CountChar(OpenBrace, input) + CountChar(CloseBrace, input)

\* ---- C12 --------------------------------------------------------------

\* the files of the tree, as the current run found them, that pass the
\* candidate test and that the loop has gone past
CandidatesDone == {j \in 1..(idx - 1) : Candidate(input[j])}

\* the texts a file of the tree can hold when a run starts, and what
\* reformat_java_file makes of each
RunTexts == FileChoices \cup {Reformat(t).out : t \in FileChoices}

Written == [t \in RunTexts |-> Reformat(t)]

\* C12: in a run of the batch that no error has ended, the file the loop is
\* at, when it passes the candidate test, never satisfies the skip condition
\* of the call it is handed to; every
\* candidate the loop has gone past was rewritten by the non-skip path and is
\* in `reformatted` (in walk order, once), every other file is untouched and
\* absent from it; and the printed total is the number of candidates of the
\* tree.  The same holds of the second run, over the files the first left.
C12_SkipGuardUnreachable ==
    /\ (bpc = "loop" /\ idx <= Len(fs) /\ Candidate(fs[idx])) =>
          ~SkipGuard(Content(fs[idx]))
    /\ bpc \in {"loop", "reported"} =>
        /\ Len(reformatted) = Cardinality(CandidatesDone)
        /\ \A k \in 1..Len(reformatted) : reformatted[k] \in CandidatesDone
        /\ \A k \in 1..(Len(reformatted) - 1) : reformatted[k] < reformatted[k + 1]
        /\ \A j \in 1..(idx - 1) :
              IF Candidate(input[j])
              THEN LET r == Written[input[j]]
                   IN  r.changed = "True" /\ fs[j] = r.out
              ELSE fs[j] = input[j]
    /\ bpc = "reported" =>
        reported = Cardinality({j \in 1..Len(input) : Candidate(input[j])})

\* the second run has printed its total: a file of 3 physical lines was
\* rewritten by both runs, and a file the first run rewrote is no longer a
\* candidate and was left alone by the second
C12_Witness ==
    /\ bpc = "reported"
    /\ rerun
    /\ reported > 0
    /\ \E j \in 1..Len(fs) :
          /\ original[j] = LongThreeLines
          /\ Candidate(out1[j])
          /\ \E k \in 1..Len(reformatted) : reformatted[k] = j
    /\ \E j \in 1..Len(fs) :
          /\ Candidate(original[j])
          /\ ~Candidate(out1[j])
          /\ fs[j] = out1[j]

====
